---- MODULE Spec2Model ----
(***************************************************************************)
(* State-machine model of MzMLBrowser (src/mzml_browser.py): the index     *)
(* build of load_mzml_file, the loading window with its Cancel button,     *)
(* the navigation handlers on_click (TIC plot), on_left_arrow and          *)
(* on_right_arrow, the redraw of update_plots, the drag-zoom handlers of   *)
(* the spectrum plot and the two resets of the plot limits.                *)
(*                                                                         *)
(* Python's None / an unbound local is the empty sequence <<>>, a present  *)
(* value v is <<v>>.  Python list positions are 0-based; the sequences     *)
(* here are 1-based, so list position k is element k+1.  Axis limits are   *)
(* kept in hundredths of a data unit (Scale), which makes the padding      *)
(* factors 0.02, 0.05, 1.05 and 1.1 of the resets integers.                *)
(***************************************************************************)
EXTENDS Integers, Sequences, FiniteSets, TLC

\* Total number of spectra the readers yield to the build loop in one session.
MaxRecords == 3

\* The same for the sessions with a long file, which reach the second
\* progress update of a load.
LongRecords == 103

\* Progress cadence of the build loop: "if i % 100 == 0".
ProgressEvery == 100

None == <<>>
Some(v) == <<v>>
Val(o) == o[1]

(***************************************************************************)
(* The records a pymzml reader can yield.  raises names the attribute      *)
(* access inside the loop's try block that throws for this record          *)
(* ("none": no access throws).  Spectra holds one record for every path    *)
(* through the loop body, with both retention times where the record       *)
(* enters the navigation set; fields the path never reads are fixed.       *)
(***************************************************************************)
Times == {1, 3}
ClickTimes == {0, 1, 2, 3, 4}

NoArrays == [mz |-> None, i |-> None]
EmptyArrays == [mz |-> Some(<<>>), i |-> Some(<<>>)]
PeakArrays == [mz |-> Some(<<100, 200>>), i |-> Some(<<0, 7>>)]
\* arrays of different lengths: an empty intensity array next to two mz values
UnequalArrays == [mz |-> Some(<<100, 200>>), i |-> Some(<<>>)]

Spectrum(level, time, tic, arr, raises) ==
    [ms_level |-> level, rt |-> time, TIC |-> tic, mz |-> arr.mz, i |-> arr.i,
     raises |-> raises]

Spectra ==
    {Spectrum(2, 1, 0, NoArrays, "ms_level")}
    \cup {Spectrum(1, 1, 0, NoArrays, "scan_time")}
    \cup {Spectrum(1, 1, 0, NoArrays, "TIC")}
    \cup {Spectrum(1, 1, 5, NoArrays, "mz")}
    \cup {Spectrum(1, t, 5, PeakArrays, "none") : t \in Times}
    \cup {Spectrum(1, t, 5, EmptyArrays, "none") : t \in Times}
    \cup {Spectrum(1, 1, 0, PeakArrays, "none")}
    \cup {Spectrum(2, 1, 0, PeakArrays, "none")}
    \cup {Spectrum(2, 1, 0, NoArrays, "none")}
    \cup {Spectrum(1, 1, 5, UnequalArrays, "none")}

VARIABLES
    tic_data,                \* self.tic_data: None or [times, intensities, indices]
    spectra_data,            \* self.spectra_data: dict i -> [rt, mz, intensities, index]
    current_spectrum_index,  \* self.current_spectrum_index
    loading_window,          \* "none" (self.loading_window is None) or "shown" (the
                             \* modal loading window, which holds the grab)
    pc,                      \* "idle", "starting", "loop", "update", "done"
    i,                       \* loop counter of enumerate(msrun)
    spectrum,                \* the record whose iteration is inside update()
    tic_times, tic_intensities, spectrum_indices, rt,   \* locals of load_mzml_file
    result,                  \* how the last load ended: "none", "loaded", "empty",
                             \* "error", or "redraw_error" (the index was committed
                             \* and update_plots, line 284, raised)
    zoom_active, zoom_start, zoom_end,   \* the drag-zoom state, lines 118-120
    end_gesture,             \* history variable: the gesture that recorded zoom_end,
                             \* "none" (zoom_end is None), "this" (recorded after
                             \* the last press in the spectrum plot) or "earlier"
    ax1, ax2,                \* the limits the code last set on the TIC plot and the
                             \* spectrum plot: [xlim, ylim], each None (left to
                             \* the plotting library) or Some(<<low, high>>)
    annotations,             \* the peaks annotated on the spectrum plot, in the
                             \* order of the loop of line 332
    consumed,                \* records yielded so far in this session
    \* history variables, read by the properties only
    stream,                  \* records yielded to the loop by the load in progress
    snap,                    \* the index as it was when the load in progress started
    cancel_at,               \* None, or Some(n): Cancel was pressed during the load
                             \* in progress, after the reader had yielded n records
    provenance,              \* key -> [ms_level, load]: which load stored the record
    series,                  \* the level-1 records the load in progress has recorded,
                             \* as (retention_time, total_intensity, sequence_index)
    tic_series,              \* series of the load that committed self.tic_data
    nav                      \* the last two navigation events since the last step of
                             \* a load, newest first: [op, from], from being the
                             \* current index before the event

vars == <<tic_data, spectra_data, current_spectrum_index, loading_window, pc, i,
          spectrum, tic_times, tic_intensities, spectrum_indices, rt, result,
          consumed, stream, snap, cancel_at, provenance, series,
          tic_series, nav, zoom_active, zoom_start, zoom_end, end_gesture,
          ax1, ax2, annotations>>

index_vars == <<tic_data, spectra_data, current_spectrum_index, provenance, tic_series>>
local_vars == <<i, spectrum, tic_times, tic_intensities, spectrum_indices, rt, series>>
hist_vars == <<stream, snap, cancel_at>>
zoom_vars == <<zoom_active, zoom_start, zoom_end, end_gesture>>
plot_vars == <<ax1, ax2, annotations>>
view_vars == <<zoom_vars, plot_vars>>
load_vars == <<loading_window, pc, local_vars, result, consumed, hist_vars>>

EmptyDict == [k \in {} |-> 0]

Put(d, k, v) == [x \in DOMAIN d \cup {k} |-> IF x = k THEN v ELSE d[x]]

Scale == 100

Limits(xlow, xhigh, ylow, yhigh) ==
    [xlim |-> Some(<<xlow, xhigh>>), ylim |-> Some(<<ylow, yhigh>>)]

\* ax.clear(): the limits are the plotting library's again
Cleared == [xlim |-> None, ylim |-> None]

\* lines 117-120 and initialize_empty_plots, lines 133-134 and 141-142
InitView ==
    /\ zoom_active = FALSE
    /\ zoom_start = None
    /\ zoom_end = None
    /\ end_gesture = "none"
    /\ ax1 = Limits(0, 10 * Scale, 0, 1000 * Scale)
    /\ ax2 = Limits(0, 1000 * Scale, 0, 1000 * Scale)
    /\ annotations = <<>>

Init ==
    /\ tic_data = None
    /\ spectra_data = EmptyDict
    /\ current_spectrum_index = 0
    /\ loading_window = "none"
    /\ pc = "idle"
    /\ i = 0
    /\ spectrum = None
    /\ tic_times = <<>>
    /\ tic_intensities = <<>>
    /\ spectrum_indices = <<>>
    /\ rt = None
    /\ result = "none"
    /\ consumed = 0
    /\ stream = <<>>
    /\ snap = None
    /\ cancel_at = None
    /\ provenance = EmptyDict
    /\ series = <<>>
    /\ tic_series = <<>>
    /\ nav = <<>>
    /\ InitView


(***************************************************************************)
(* The body of the build loop, lines 247-266, as a function of the build   *)
(* state b (the locals of load_mzml_file and self.spectra_data), the       *)
(* record s and its position k.  Each part returns the build state it      *)
(* leaves and whether it raised; whatever was appended before the raise    *)
(* stays appended.                                                         *)
(***************************************************************************)
Build ==
    [tic_times |-> tic_times, tic_intensities |-> tic_intensities,
     spectrum_indices |-> spectrum_indices, rt |-> rt,
     spectra_data |-> spectra_data, provenance |-> provenance, series |-> series]

Entry(s, k) ==
    [retention_time |-> s.rt, total_intensity |-> s.TIC, sequence_index |-> k]

\* AppendTic with a bug: a level-1 record enters the TIC lists only when its
\* total ion current is nonzero
AppendTicNonzeroOnly(b, s, k) ==
    IF s.ms_level # 1 THEN [b |-> b, raised |-> FALSE]
    ELSE IF s.raises = "scan_time" THEN [b |-> b, raised |-> TRUE]
    ELSE LET b1 == [b EXCEPT !.rt = Some(s.rt)]
         IN  IF s.raises = "TIC" THEN [b |-> b1, raised |-> TRUE]
             ELSE IF s.TIC = 0 THEN [b |-> b1, raised |-> FALSE]
             ELSE [b |-> [b1 EXCEPT !.tic_times = Append(@, s.rt),
                                    !.tic_intensities = Append(@, s.TIC),
                                    !.spectrum_indices = Append(@, k),
                                    !.series = Append(@, Entry(s, k))],
                   raised |-> FALSE]

\* lines 247-252: "if spectrum.ms_level == 1:" and the three appends
AppendTic(b, s, k) ==
    IF s.ms_level # 1 THEN [b |-> b, raised |-> FALSE]
    ELSE IF s.raises = "scan_time" THEN [b |-> b, raised |-> TRUE]
    ELSE LET b1 == [b EXCEPT !.rt = Some(s.rt),
                             !.tic_times = Append(@, s.rt)]
         IN  IF s.raises = "TIC" THEN [b |-> b1, raised |-> TRUE]
             ELSE [b |-> [b1 EXCEPT !.tic_intensities = Append(@, s.TIC),
                                    !.spectrum_indices = Append(@, k),
                                    !.series = Append(@, Entry(s, k))],
                   raised |-> FALSE]

\* line 260: "mz_values is not None and intensities is not None and len(mz_values) > 0"
ValidData(s) == s.mz # None /\ s.i # None /\ Len(Val(s.mz)) > 0

\* lines 256-266: read the arrays and insert into self.spectra_data; reading
\* the local rt before any level-1 record bound it raises UnboundLocalError
StoreSpectrum(b, s, k) ==
    IF s.raises = "mz" THEN [b |-> b, raised |-> TRUE]
    ELSE IF ~ValidData(s) THEN [b |-> b, raised |-> FALSE]
    ELSE IF b.rt = None THEN [b |-> b, raised |-> TRUE]
    ELSE [b |-> [b EXCEPT
                   !.spectra_data =
                       Put(@, k, [rt |-> Val(b.rt), mz |-> Val(s.mz),
                                  intensities |-> Val(s.i), index |-> k]),
                   !.provenance =
                       Put(@, k, [ms_level |-> s.ms_level, load |-> "this"])],
          raised |-> FALSE]

\* lines 240-269 after the progress update: try: ... except Exception: continue
ProcessSpectrum(b, s, k) ==
    IF s.raises = "ms_level" THEN b
    ELSE LET a == AppendTic(b, s, k)
         IN  IF a.raised THEN a.b ELSE StoreSpectrum(a.b, s, k).b

SetBuild(b) ==
    /\ tic_times' = b.tic_times
    /\ tic_intensities' = b.tic_intensities
    /\ spectrum_indices' = b.spectrum_indices
    /\ rt' = b.rt
    /\ spectra_data' = b.spectra_data
    /\ provenance' = b.provenance
    /\ series' = b.series

\* line 242: "i % 100 == 0 and self.loading_label"
ProgressDue(k) == k % ProgressEvery = 0 /\ loading_window # "none"

\* The Tk event loop dispatches to the main window's handlers: between
\* handlers, or inside update() once the loading window no longer holds the
\* grab (grab_set, line 163).
MainWindowEvents ==
    \/ pc = "idle"
    \/ pc \in {"starting", "update"} /\ loading_window # "shown"

(***************************************************************************)
(* update_plots, lines 290-342, for a loaded index: what it leaves on the  *)
(* two plots.                                                              *)
(***************************************************************************)
TopN == 10

\* the positions (1-based, ascending) at which mask is TRUE
Positions(mask) ==
    LET P == {k \in DOMAIN mask : mask[k]}
    IN  [r \in 1..Cardinality(P) |->
            CHOOSE k \in P : Cardinality({j \in P : j < k}) = r - 1]

\* lines 319-321 (and 430-432, 469-471): the pairs with intensity > 0
Filtered(rec) ==
    LET pos == Positions([k \in 1..Len(rec.intensities) |-> rec.intensities[k] > 0])
    IN  [mz |-> [r \in 1..Len(pos) |-> rec.mz[pos[r]]],
         intensities |-> [r \in 1..Len(pos) |-> rec.intensities[pos[r]]]]

\* mz_values[non_zero_mask] raises IndexError when the mask, which has the
\* length of the intensity array, is not as long as the mz array
MaskRaises(rec) == Len(rec.mz) # Len(rec.intensities)

\* np.argsort(a): the positions (0-based) of a in ascending order of value.
\* The order among equal values is the sort routine's; the two outcomes kept
\* are the earlier position first and the later position first.
ArgSort(a, later_first) ==
    LET Before(j, k) ==
            \/ a[j] < a[k]
            \/ a[j] = a[k] /\ (IF later_first THEN j > k ELSE j < k)
    IN  [r \in 1..Len(a) |->
            (CHOOSE k \in 1..Len(a) :
                 Cardinality({j \in 1..Len(a) : Before(j, k)}) = r - 1) - 1]

\* TopPeaksIdx with a bug: the slice is [:10], the first ten of the ascending
\* order
TopPeaksIdxLowest(a, later_first) ==
    LET sorted == ArgSort(a, later_first)
    IN  SubSeq(sorted, 1, IF Len(a) > TopN THEN TopN ELSE Len(a))

\* line 331: np.argsort(intensities_filtered)[-10:]
TopPeaksIdx(a, later_first) ==
    LET sorted == ArgSort(a, later_first)
    IN  SubSeq(sorted, IF Len(a) > TopN THEN Len(a) - TopN + 1 ELSE 1, Len(a))

\* lines 330-338: one annotation for each idx of top_peaks_idx
Annotate(rec, later_first) ==
    LET f == Filtered(rec)
        top_peaks_idx == TopPeaksIdx(f.intensities, later_first)
    IN  [r \in 1..Len(top_peaks_idx) |->
            [idx |-> top_peaks_idx[r],
             mz_val |-> f.mz[top_peaks_idx[r] + 1],
             intensity_val |-> f.intensities[top_peaks_idx[r] + 1]]]

\* update_plots raises: ax1.plot (line 300) on lists of different lengths,
\* or the mask of line 320
PlotRaises(tic, store, cur) ==
    \/ Len(tic.times) # Len(tic.intensities)
    \/ cur \in DOMAIN store /\ MaskRaises(store[cur])

\* update_plots on the index (tic, store, cur): both plots are cleared, and
\* the spectrum plot is redrawn and annotated if the redraw gets that far
SetPlots(tic, store, cur) ==
    /\ ax1' = Cleared
    /\ ax2' = Cleared
    /\ IF cur \in DOMAIN store /\ ~PlotRaises(tic, store, cur)
       THEN annotations' \in {Annotate(store[cur], later_first) :
                                  later_first \in BOOLEAN}
       ELSE annotations' = <<>>

(***************************************************************************)
(* open_file, lines 204-217, up to root.update() of load_mzml_file (line   *)
(* 222): show_loading_indicator makes the loading window.                  *)
(***************************************************************************)
OpenFile ==
    /\ nav' = <<>>
    /\ pc = "idle"
    /\ pc' = "starting"
    /\ loading_window' = "shown"
    /\ result' = "none"
    /\ snap' = Some([tic_data |-> tic_data, spectra_data |-> spectra_data,
                     current_spectrum_index |-> current_spectrum_index])
    /\ stream' = <<>>
    /\ cancel_at' = None
    /\ provenance' = [k \in DOMAIN provenance |->
                          [provenance[k] EXCEPT !.load = "earlier"]]
    /\ UNCHANGED <<tic_data, spectra_data, current_spectrum_index, tic_series,
                   local_vars, consumed, view_vars>>

\* cancel_loading, lines 199-202 (the Cancel button of the loading window)
CancelLoading ==
    /\ nav' = <<>>
    /\ pc \in {"starting", "update"}
    /\ loading_window = "shown"
    /\ loading_window' = "none"
    /\ cancel_at' = Some(Len(stream))
    /\ UNCHANGED <<index_vars, pc, local_vars, result, consumed, stream, snap,
                   view_vars>>

\* hide_loading_indicator, lines 192-197
HideLoadingIndicator == loading_window' = "none"

\* lines 225-237: both Reader constructions and the counting pass succeed
StartRead ==
    /\ nav' = <<>>
    /\ pc = "starting"
    /\ pc' = "loop"
    /\ i' = 0
    /\ tic_times' = <<>>
    /\ tic_intensities' = <<>>
    /\ spectrum_indices' = <<>>
    /\ rt' = None
    /\ spectrum' = None
    /\ series' = <<>>
    /\ UNCHANGED <<index_vars, loading_window, result, consumed, hist_vars,
                   view_vars>>

\* lines 225-237 raise (the file cannot be read): except branch of open_file
ReadFails ==
    /\ nav' = <<>>
    /\ pc = "starting"
    /\ pc' = "done"
    /\ result' = "error"
    /\ HideLoadingIndicator
    /\ UNCHANGED <<index_vars, local_vars, consumed, hist_vars, view_vars>>

(***************************************************************************)
(* One iteration of "for i, spectrum in enumerate(msrun)", lines 239-269.  *)
(* When a progress update is due, the calls on the loading window (lines   *)
(* 244-245) either raise, as they do once the window manager has destroyed *)
(* the window, and the except branch skips the record; or the iteration    *)
(* enters loading_window.update().                                         *)
(***************************************************************************)
Iterate(s, sink_raises) ==
    /\ nav' = <<>>
    /\ pc = "loop"
    /\ consumed' = consumed + 1
    /\ stream' = Append(stream, [spectrum |-> s,
                                 sink_raised |-> ProgressDue(i) /\ sink_raises])
    /\ IF ProgressDue(i)
       THEN IF sink_raises
            THEN /\ i' = i + 1
                 /\ UNCHANGED <<pc, spectrum, tic_times, tic_intensities,
                                spectrum_indices, rt, spectra_data, provenance,
                                series>>
            ELSE /\ pc' = "update"
                 /\ spectrum' = Some(s)
                 /\ UNCHANGED <<i, tic_times, tic_intensities, spectrum_indices,
                                rt, spectra_data, provenance, series>>
       ELSE /\ ~sink_raises
            /\ SetBuild(ProcessSpectrum(Build, s, i))
            /\ i' = i + 1
            /\ UNCHANGED <<pc, spectrum>>
    /\ UNCHANGED <<tic_data, current_spectrum_index, tic_series, loading_window,
                   result, snap, cancel_at, view_vars>>

\* an iteration, while the readers of the session have records left
LoopNext(s, sink_raises) ==
    /\ consumed < MaxRecords
    /\ Iterate(s, sink_raises)

\* loading_window.update() returns (line 245); the rest of the iteration runs
UpdateReturns ==
    /\ nav' = <<>>
    /\ pc = "update"
    /\ SetBuild(ProcessSpectrum(Build, Val(spectrum), i))
    /\ i' = i + 1
    /\ spectrum' = None
    /\ pc' = "loop"
    /\ UNCHANGED <<tic_data, current_spectrum_index, tic_series, loading_window,
                   result, consumed, hist_vars, view_vars>>

\* the reader raises while the loop iterates it: except branch of open_file
StreamBreaks ==
    /\ nav' = <<>>
    /\ pc = "loop"
    /\ pc' = "done"
    /\ result' = "error"
    /\ HideLoadingIndicator
    /\ UNCHANGED <<index_vars, local_vars, consumed, hist_vars, view_vars>>

\* line 271 : "if not spectrum_indices"
NoMS1(indices) == indices = <<>>

\* MiddleIndex with a bug: the middle is taken of the positions 0..n-1, which
\* is the lower of the two middle entries of an even number
MiddleIndexLow(indices) == indices[((Len(indices) - 1) \div 2) + 1]

\* line 281: spectrum_indices[len(spectrum_indices)//2]
MiddleIndex(indices) == indices[(Len(indices) \div 2) + 1]

\* the reader is exhausted: lines 271-288, or the except branch of open_file
StreamEnds ==
    /\ nav' = <<>>
    /\ pc = "loop"
    /\ pc' = "done"
    /\ HideLoadingIndicator
    /\ IF NoMS1(spectrum_indices)
       THEN /\ result' = "empty"
            /\ UNCHANGED <<tic_data, current_spectrum_index, tic_series, plot_vars>>
       ELSE LET tic == [times |-> tic_times,
                        intensities |-> tic_intensities,
                        indices |-> spectrum_indices]
                cur == MiddleIndex(spectrum_indices)
            IN  /\ tic_data' = Some(tic)
                /\ current_spectrum_index' = cur
                /\ tic_series' = series
                /\ SetPlots(tic, spectra_data, cur)
                /\ result' = IF PlotRaises(tic, spectra_data, cur)
                             THEN "redraw_error" ELSE "loaded"
    /\ UNCHANGED <<spectra_data, provenance, local_vars, consumed, hist_vars,
                   zoom_vars>>

\* open_file returns to the event loop; the locals of the load are gone
Return ==
    /\ nav' = <<>>
    /\ pc = "done"
    /\ pc' = "idle"
    /\ i' = 0
    /\ spectrum' = None
    /\ tic_times' = <<>>
    /\ tic_intensities' = <<>>
    /\ spectrum_indices' = <<>>
    /\ rt' = None
    /\ series' = <<>>
    /\ stream' = <<>>
    /\ snap' = None
    /\ cancel_at' = None
    /\ UNCHANGED <<index_vars, loading_window, result, consumed, view_vars>>

(***************************************************************************)
(* Navigation                                                              *)
(***************************************************************************)
Abs(x) == IF x < 0 THEN -x ELSE x

\* np.argmin(np.abs(times - t)): the first position of the minimum (0-based)
ArgMinAbs(times, t) ==
    CHOOSE k \in 0..(Len(times) - 1) :
        /\ \A j \in 0..(Len(times) - 1) : Abs(times[k + 1] - t) <= Abs(times[j + 1] - t)
        /\ \A j \in 0..(k - 1) : Abs(times[j + 1] - t) > Abs(times[k + 1] - t)

\* ClickedIndex with a bug: the position in the TIC lists is taken for the
\* sequence index
ClickedIndexIsPosition(tic, cur, t) ==
    LET closest_idx == ArgMinAbs(tic.times, t)
    IN  IF closest_idx < Len(tic.indices) THEN closest_idx ELSE cur

\* lines 350-351: the index selected by a click at time t; indexing the list
\* past its end raises IndexError and leaves the selection as it was
ClickedIndex(tic, cur, t) ==
    LET closest_idx == ArgMinAbs(tic.times, t)
    IN  IF closest_idx < Len(tic.indices) THEN tic.indices[closest_idx + 1] ELSE cur

\* list.index(v): the first position of v (0-based), -1 where Python raises ValueError
ListIndex(seq, v) ==
    IF \E k \in 1..Len(seq) : seq[k] = v
    THEN (CHOOSE k \in 1..Len(seq) : seq[k] = v /\ \A j \in 1..(k - 1) : seq[j] # v) - 1
    ELSE -1

\* LeftIndex with a bug: the boundary test is "current_idx > 1"
LeftIndexOffByOne(indices, cur) ==
    IF Len(indices) > 1
    THEN LET current_idx == ListIndex(indices, cur)
         IN  IF current_idx > 1 THEN indices[current_idx] ELSE cur
    ELSE cur

\* lines 487-490
LeftIndex(indices, cur) ==
    IF Len(indices) > 1
    THEN LET current_idx == ListIndex(indices, cur)
         IN  IF current_idx > 0 THEN indices[current_idx] ELSE cur
    ELSE cur

\* RightIndex with a bug: a step from the last entry wraps around to the first
RightIndexWraps(indices, cur) ==
    IF Len(indices) > 1
    THEN LET current_idx == ListIndex(indices, cur)
         IN  IF current_idx >= 0
             THEN indices[((current_idx + 1) % Len(indices)) + 1] ELSE cur
    ELSE cur

\* lines 499-502
RightIndex(indices, cur) ==
    IF Len(indices) > 1
    THEN LET current_idx == ListIndex(indices, cur)
         IN  IF current_idx >= 0 /\ current_idx < Len(indices) - 1
             THEN indices[current_idx + 2] ELSE cur
    ELSE cur

Remember(op) ==
    <<[op |-> op, from |-> current_spectrum_index]>> \o SubSeq(nav, 1, IF nav = <<>> THEN 0 ELSE 1)

\* the handler has set a new current index (lines 351, 490, 502) and calls
\* update_plots; a handler that raised before, or did not move, redraws nothing
Redraw(moved) ==
    IF moved
    THEN SetPlots(Val(tic_data), spectra_data, current_spectrum_index')
    ELSE UNCHANGED plot_vars

\* on_click in the TIC plot, lines 346-352
OnClick(t) ==
    /\ MainWindowEvents
    /\ tic_data # None
    /\ current_spectrum_index' = ClickedIndex(Val(tic_data), current_spectrum_index, t)
    /\ Redraw(ArgMinAbs(Val(tic_data).times, t) < Len(Val(tic_data).indices))
    /\ UNCHANGED <<tic_data, spectra_data, provenance, tic_series, load_vars,
                   zoom_vars>>

\* on_left_arrow, lines 485-495
OnLeftArrow ==
    /\ MainWindowEvents
    /\ tic_data # None
    /\ current_spectrum_index' = LeftIndex(Val(tic_data).indices, current_spectrum_index)
    /\ Redraw(current_spectrum_index' # current_spectrum_index)
    /\ UNCHANGED <<tic_data, spectra_data, provenance, tic_series, load_vars,
                   zoom_vars>>

\* on_right_arrow, lines 497-507
OnRightArrow ==
    /\ MainWindowEvents
    /\ tic_data # None
    /\ current_spectrum_index' = RightIndex(Val(tic_data).indices, current_spectrum_index)
    /\ Redraw(current_spectrum_index' # current_spectrum_index)
    /\ UNCHANGED <<tic_data, spectra_data, provenance, tic_series, load_vars,
                   zoom_vars>>

(***************************************************************************)
(* The pointer events of the matplotlib canvas.  An event inside a plot    *)
(* carries data coordinates; outside the plots inaxes, xdata and ydata are *)
(* None.                                                                   *)
(***************************************************************************)
XData == {100, 400}
YData == {10, 50}
Buttons == {1, 3}

Event(inaxes, x, y, button) ==
    [inaxes |-> inaxes, xdata |-> x, ydata |-> y, button |-> button]

SpectrumEvents ==
    {Event("ax2", Some(x), Some(y), b) : x \in XData, y \in YData, b \in Buttons}

PointerEvents ==
    SpectrumEvents \cup {Event("none", None, None, b) : b \in Buttons}

Min(a, b) == IF a < b THEN a ELSE b
Max(a, b) == IF a > b THEN a ELSE b

SeqMin(a) == CHOOSE v \in {a[k] : k \in 1..Len(a)} : \A k \in 1..Len(a) : v <= a[k]
SeqMax(a) == CHOOSE v \in {a[k] : k \in 1..Len(a)} : \A k \in 1..Len(a) : v >= a[k]

\* on_click in the spectrum plot, lines 358-363
OnClickSpectrum(event) ==
    /\ MainWindowEvents
    /\ event.inaxes = "ax2"
    /\ IF event.button = 1
       THEN /\ zoom_active' = TRUE
            /\ zoom_start' = Some(<<event.xdata, event.ydata>>)
            /\ end_gesture' = IF zoom_end = None THEN "none" ELSE "earlier"
       ELSE UNCHANGED <<zoom_active, zoom_start, end_gesture>>
    /\ UNCHANGED <<index_vars, load_vars, zoom_end, plot_vars>>

\* on_mouse_move, lines 398-402
OnMouseMove(event) ==
    /\ MainWindowEvents
    /\ IF zoom_active /\ event.inaxes = "ax2"
       THEN /\ zoom_end' = Some(<<event.xdata, event.ydata>>)
            /\ end_gesture' = "this"
       ELSE UNCHANGED <<zoom_end, end_gesture>>
    /\ UNCHANGED <<index_vars, load_vars, zoom_active, zoom_start, plot_vars>>

\* lines 407-414: the limits a release sets from zoom_start and zoom_end
ZoomLimits(start, end, limits) ==
    IF start # None /\ end # None
    THEN LET x1 == Val(start)[1]
             y1 == Val(start)[2]
             x2 == Val(end)[1]
             y2 == Val(end)[2]
         IN  IF x1 # None /\ x2 # None /\ y1 # None /\ y2 # None
             THEN Limits(Scale * Min(Val(x1), Val(x2)), Scale * Max(Val(x1), Val(x2)),
                         Scale * Min(Val(y1), Val(y2)), Scale * Max(Val(y1), Val(y2)))
             ELSE limits
    ELSE limits

\* on_mouse_release, lines 404-420
OnMouseRelease(event) ==
    /\ MainWindowEvents
    /\ IF zoom_active /\ event.inaxes = "ax2" /\ event.button = 1
       THEN /\ ax2' = ZoomLimits(zoom_start, zoom_end, ax2)
            /\ zoom_active' = FALSE
            /\ zoom_start' = None
            /\ zoom_end' = None
            /\ end_gesture' = "none"
       ELSE UNCHANGED <<ax2, zoom_vars>>
    /\ UNCHANGED <<index_vars, load_vars, ax1, annotations>>

\* lines 434-441 and 473-479: the limits that show all of the filtered data
SpectrumLimits(rec, limits) ==
    LET f == Filtered(rec)
    IN  IF Len(f.mz) > 0
        THEN LET mz_range == SeqMax(f.mz) - SeqMin(f.mz)
             IN  Limits(Scale * SeqMin(f.mz) - 5 * mz_range,
                        Scale * SeqMax(f.mz) + 5 * mz_range,
                        0, 110 * SeqMax(f.intensities))
        ELSE limits

\* lines 453-460
TicLimits(tic, limits) ==
    IF Len(tic.times) > 0
    THEN LET time_range == SeqMax(tic.times) - SeqMin(tic.times)
         IN  Limits(Scale * SeqMin(tic.times) - 2 * time_range,
                    Scale * SeqMax(tic.times) + 2 * time_range,
                    0, 105 * SeqMax(tic.intensities))
    ELSE limits

\* the current record as the resets look it up (lines 424, 463)
CurrentRecord ==
    IF current_spectrum_index \in DOMAIN spectra_data
    THEN Some(spectra_data[current_spectrum_index]) ELSE None

\* lines 424-441 and 463-479; the mask (lines 431, 470) may raise
ResetSpectrum ==
    IF CurrentRecord # None /\ ~MaskRaises(Val(CurrentRecord))
    THEN ax2' = SpectrumLimits(Val(CurrentRecord), ax2)
    ELSE UNCHANGED ax2

\* reset_mass_spectrum_zoom, lines 422-444
ResetMassSpectrumZoom ==
    /\ MainWindowEvents
    /\ ResetSpectrum
    /\ UNCHANGED <<index_vars, load_vars, zoom_vars, ax1, annotations>>

\* reset_all_plots, lines 446-483
ResetAllPlots ==
    /\ MainWindowEvents
    /\ IF tic_data # None
       THEN ax1' = TicLimits(Val(tic_data), ax1)
       ELSE UNCHANGED ax1
    /\ ResetSpectrum
    /\ UNCHANGED <<index_vars, load_vars, zoom_vars, annotations>>

Next ==
    \/ OpenFile
    \/ CancelLoading
    \/ StartRead
    \/ ReadFails
    \/ \E s \in Spectra, sink_raises \in BOOLEAN : LoopNext(s, sink_raises)
    \/ UpdateReturns
    \/ StreamBreaks
    \/ StreamEnds
    \/ Return
    \/ \E t \in ClickTimes : OnClick(t) /\ nav' = <<>>
    \/ OnLeftArrow /\ nav' = <<>>
    \/ OnRightArrow /\ nav' = <<>>

Spec == Init /\ [][Next]_vars

(***************************************************************************)
(* The sessions in which files are opened only until the first record has  *)
(* been read, with the last two navigation events remembered in nav.       *)
(***************************************************************************)
NextNav ==
    \/ consumed = 0 /\ OpenFile
    \/ CancelLoading
    \/ StartRead
    \/ ReadFails
    \/ \E s \in Spectra, sink_raises \in BOOLEAN : LoopNext(s, sink_raises)
    \/ UpdateReturns
    \/ StreamBreaks
    \/ StreamEnds
    \/ Return
    \/ \E t \in ClickTimes : OnClick(t) /\ nav' = Remember("click")
    \/ OnLeftArrow /\ nav' = Remember("left")
    \/ OnRightArrow /\ nav' = Remember("right")

SpecNav == Init /\ [][NextNav]_vars

(***************************************************************************)
(* The sessions with a long file: files are opened until two records have  *)
(* been read, every record is a level-1 record with peaks, and no progress *)
(* update fails, so that a load gets to its progress update of record 100. *)
(***************************************************************************)
LongSpectra == {Spectrum(1, t, 5, PeakArrays, "none") : t \in {1}}

NextLong ==
    \/ consumed <= 2 /\ OpenFile
    \/ CancelLoading
    \/ StartRead
    \/ \E s \in LongSpectra : consumed < LongRecords /\ Iterate(s, FALSE)
    \/ UpdateReturns
    \/ StreamEnds
    \/ Return
    \/ \E t \in ClickTimes : OnClick(t) /\ nav' = <<>>
    \/ OnLeftArrow /\ nav' = <<>>
    \/ OnRightArrow /\ nav' = <<>>

SpecLong == Init /\ [][NextLong]_vars

(***************************************************************************)
(* The sessions on a loaded file: the pointer events, the two resets and   *)
(* the navigation, from the state in which the first load of a file has    *)
(* returned.  The files are streams of level-1 records none of which       *)
(* fails, with arrays that exercise the limits and the peak annotation.    *)
(***************************************************************************)
OnePeak == [mz |-> Some(<<100>>), i |-> Some(<<7>>)]
EqualMz == [mz |-> Some(<<100, 100>>), i |-> Some(<<3, 7>>)]
TwoPeaks == [mz |-> Some(<<100, 300>>), i |-> Some(<<3, 7>>)]
NoPeaks == [mz |-> Some(<<100, 200>>), i |-> Some(<<0, 0>>)]
ManyPeaks ==
    [mz |-> Some(<<101, 102, 103, 104, 105, 106, 107, 108, 109, 110, 111, 112, 113>>),
     i |-> Some(<<4, 2, 9, 2, 0, 8, 2, 7, 6, 5, 3, 11, 12>>)]

ViewArrays == {OnePeak, EqualMz, TwoPeaks, NoPeaks, PeakArrays, ManyPeaks}

ViewStreams ==
    {<<Spectrum(1, 1, tic, arr, "none")>> : tic \in {0, 5}, arr \in ViewArrays}
    \cup {<<Spectrum(1, 1, 5, TwoPeaks, "none"), Spectrum(1, t, 5, arr, "none")>> :
              t \in Times, arr \in {OnePeak, ManyPeaks}}
    \cup {<<Spectrum(1, 1, 5, ManyPeaks, "none"), Spectrum(1, 3, 5, TwoPeaks, "none")>>}

\* lines 228-230 and the store of __init__ (line 31)
FreshBuild ==
    [tic_times |-> <<>>, tic_intensities |-> <<>>, spectrum_indices |-> <<>>,
     rt |-> None, spectra_data |-> EmptyDict, provenance |-> EmptyDict,
     series |-> <<>>]

\* the build state after the loop has processed the records recs from b
RECURSIVE BuildOf(_, _)
BuildOf(b, recs) ==
    IF recs = <<>> THEN b
    ELSE ProcessSpectrum(BuildOf(b, SubSeq(recs, 1, Len(recs) - 1)),
                         recs[Len(recs)], Len(recs) - 1)

InitLoaded ==
    \E recs \in ViewStreams :
        LET b == BuildOf(FreshBuild, recs)
            tic == [times |-> b.tic_times, intensities |-> b.tic_intensities,
                    indices |-> b.spectrum_indices]
            cur == MiddleIndex(b.spectrum_indices)
        IN  /\ tic_data = Some(tic)
            /\ spectra_data = b.spectra_data
            /\ current_spectrum_index = cur
            /\ provenance = b.provenance
            /\ tic_series = b.series
            /\ loading_window = "none"
            /\ pc = "idle"
            /\ i = 0
            /\ spectrum = None
            /\ tic_times = <<>>
            /\ tic_intensities = <<>>
            /\ spectrum_indices = <<>>
            /\ rt = None
            /\ series = <<>>
            /\ result = "loaded"
            /\ consumed = Len(recs)
            /\ stream = <<>>
            /\ snap = None
            /\ cancel_at = None
            /\ nav = <<>>
            /\ zoom_active = FALSE
            /\ zoom_start = None
            /\ zoom_end = None
            /\ end_gesture = "none"
            /\ ax1 = Cleared
            /\ ax2 = Cleared
            /\ annotations \in {Annotate(b.spectra_data[cur], later_first) :
                                    later_first \in BOOLEAN}

NextView ==
    \/ \E event \in SpectrumEvents : OnClickSpectrum(event) /\ nav' = <<>>
    \/ \E event \in PointerEvents : OnMouseMove(event) /\ nav' = <<>>
    \/ \E event \in PointerEvents : OnMouseRelease(event) /\ nav' = <<>>
    \/ ResetMassSpectrumZoom /\ nav' = <<>>
    \/ ResetAllPlots /\ nav' = <<>>
    \/ \E t \in ClickTimes : OnClick(t) /\ nav' = <<>>
    \/ OnLeftArrow /\ nav' = <<>>
    \/ OnRightArrow /\ nav' = <<>>

SpecView == InitLoaded /\ [][NextView]_vars

(***************************************************************************)
(* Properties                                                              *)
(***************************************************************************)
Loading == pc \in {"starting", "loop", "update", "done"}

Loaded == tic_data # None

Indices == Val(tic_data).indices

IndexSet == {Indices[k] : k \in 1..Len(Indices)}

\* the TIC Series and the Spectrum Store are as they were when the load started
IndexAsBefore ==
    /\ tic_data = Val(snap).tic_data
    /\ spectra_data = Val(snap).spectra_data

\* ... and so is the selection
AllAsBefore ==
    /\ IndexAsBefore
    /\ current_spectrum_index = Val(snap).current_spectrum_index

\* C1: a load that fails (unreadable source, stream breaking part-way, no
\* level-1 record) leaves the TIC Series, the Spectrum Store and the current
\* index of the earlier successful load exactly as they were.  Stated for the
\* loads during which Cancel was not pressed: the loading window then holds
\* the grab throughout, so nothing but the load itself ran in between.
C1_FailedLoadKeepsIndex ==
    (/\ pc = "done"
     /\ result \in {"error", "empty"}
     /\ cancel_at = None
     /\ Val(snap).tic_data # None)
    => AllAsBefore

\* C2: once Cancel is signalled the builder consumes no further record,
\* never commits the build in progress, and the TIC Series and Spectrum Store
\* of the earlier successful load stay as they were.
C2_CancelDiscardsBuild ==
    (Loading /\ cancel_at # None /\ Val(snap).tic_data # None)
    => /\ Len(stream) = Val(cancel_at)
       /\ result # "loaded"
       /\ IndexAsBefore

\* no record of the load in progress failed, in extraction or in its progress
\* update, and Cancel was not pressed
CleanLoad ==
    /\ cancel_at = None
    /\ \A k \in 1..Len(stream) :
          stream[k].spectrum.raises = "none" /\ ~stream[k].sink_raised

\* C3: after a successful load every key of the Spectrum Store was inserted
\* by that load; no record of an earlier load remains.  Stated for the loads
\* in which no record failed.
C3_StoreRebuiltOnLoad ==
    (pc = "done" /\ result = "loaded" /\ CleanLoad)
    => \A k \in DOMAIN spectra_data : provenance[k].load = "this"

\* C4: with an index loaded, every sequence index of the TIC Series is a key
\* of the Spectrum Store.  Stated for the index as a load in which no record
\* failed leaves it.
C4_TicIndicesInStore ==
    (pc = "done" /\ result = "loaded" /\ CleanLoad)
    => IndexSet \subseteq DOMAIN spectra_data

\* C5: the current index is undefined (nothing loaded) or references a stored
\* record of ms level 1 with non-empty mz and intensity arrays.  Stated for
\* the sessions in which no index is loaded, and those in which the last load
\* was one in which no record failed.
C5_CurrentIsStoredMS1 ==
    (Loaded /\ pc = "done" /\ result = "loaded" /\ CleanLoad)
    => /\ current_spectrum_index \in DOMAIN spectra_data
       /\ provenance[current_spectrum_index].ms_level = 1
       /\ Len(spectra_data[current_spectrum_index].mz) > 0
       /\ Len(spectra_data[current_spectrum_index].intensities) > 0

\* the step is the part of an iteration after the progress update, for record s
Processes(s) ==
    \/ LoopNext(s, FALSE) /\ pc' = "loop"
    \/ UpdateReturns /\ spectrum = Some(s)

\* C6: an iteration whose record fails in extraction adds nothing to the TIC
\* Series and nothing to the Spectrum Store, and the build goes on to the
\* next record.
C6_FailingRecordSkipped ==
    [][\A s \in Spectra :
         (Processes(s) /\ s.raises # "none")
         => /\ tic_times' = tic_times
            /\ tic_intensities' = tic_intensities
            /\ spectrum_indices' = spectrum_indices
            /\ spectra_data' = spectra_data
            /\ pc' = "loop"
            /\ i' = i + 1]_vars

\* the record was appended to spectrum_indices: a level-1 record whose
\* iteration reached line 252
Recorded(r) ==
    /\ ~r.sink_raised
    /\ r.spectrum.ms_level = 1
    /\ r.spectrum.raises \in {"none", "mz"}

\* the reader was read to its end
StreamRead == pc = "done" /\ result \in {"empty", "loaded", "redraw_error"}

\* C7 as claimed: a build fails with the empty-result error exactly for the
\* streams without a level-1 record of nonzero total ion current.  Stated for
\* the loads in which no record failed.
C7_EmptyIffNoNonzeroMS1 ==
    (StreamRead /\ CleanLoad)
    => (result = "empty"
        <=> ~\E k \in 1..Len(stream) :
               stream[k].spectrum.ms_level = 1 /\ stream[k].spectrum.TIC # 0)

\* C7 as amended: a build that reads its stream to the end fails with the
\* empty-result error exactly when no level-1 record of the stream was
\* recorded in the TIC Series, whatever the total ion current of the records,
\* and commits an index otherwise.
C7_EmptyIffNoRecordedMS1 ==
    StreamRead
    => (result = "empty" <=> ~\E k \in 1..Len(stream) : Recorded(stream[k]))

\* C7 witness: a stream whose level-1 records all report a total ion current
\* of zero was committed
C7_ZeroTicCommitted ==
    /\ StreamRead
    /\ result = "loaded"
    /\ \A k \in 1..Len(stream) :
          stream[k].spectrum.ms_level = 1 => stream[k].spectrum.TIC = 0
    /\ \E k \in 1..Len(stream) : Recorded(stream[k])

NavIs(op) == Loaded /\ pc = "idle" /\ nav # <<>> /\ nav[1].op = op

\* the positions (0-based) of index v in the TIC Series
PositionsOf(v) == {p \in 0..(Len(Indices) - 1) : Indices[p + 1] = v}

\* C8: a step from the entry at position p of n moves to position p+1 (next,
\* p < n-1) or p-1 (prev, p > 0), and leaves the current index unchanged at
\* either boundary and when n < 2.
C8_StepMovesOnePosition ==
    \A p \in (IF Loaded /\ nav # <<>> THEN PositionsOf(nav[1].from) ELSE {}) :
        /\ NavIs("right")
           => current_spectrum_index =
                  IF p < Len(Indices) - 1 THEN Indices[p + 2] ELSE nav[1].from
        /\ NavIs("left")
           => current_spectrum_index =
                  IF p > 0 THEN Indices[p] ELSE nav[1].from

\* C8 witness: a prev step from the middle of three entries has moved to the first
C8_SteppedBack ==
    /\ NavIs("left")
    /\ Len(Indices) = 3
    /\ nav[1].from = Indices[2]
    /\ current_spectrum_index = Indices[1]

\* the entries of the TIC Series nearest to time t: the positions (1-based)
\* whose record has a retention time at minimum distance from t
Nearest(t) ==
    {k \in 1..Len(tic_series) :
        \A j \in 1..Len(tic_series) :
            Abs(tic_series[k].retention_time - t)
                <= Abs(tic_series[j].retention_time - t)}

\* C9: a click at time t on a non-empty TIC Series sets the current index to
\* that of the entry nearest to t, the one at the lowest position among
\* equally near ones.
C9_ClickSelectsNearest ==
    [][\A t \in ClickTimes :
         (Loaded /\ OnClick(t))
         => \E k \in Nearest(t) :
               /\ \A j \in Nearest(t) : k <= j
               /\ current_spectrum_index' = tic_series[k].sequence_index]_vars

\* C10: a step forward from an entry that is not the last, then a step back,
\* returns to the original index; and so does a step back from an entry that
\* is not the first, then a step forward.
C10_StepRoundTrip ==
    (Loaded /\ pc = "idle" /\ Len(nav) = 2)
    => \A p \in PositionsOf(nav[2].from) :
          /\ (nav[2].op = "right" /\ nav[1].op = "left" /\ p < Len(Indices) - 1)
             => current_spectrum_index = nav[2].from
          /\ (nav[2].op = "left" /\ nav[1].op = "right" /\ p > 0)
             => current_spectrum_index = nav[2].from

\* C10 witness: forward from the first of three entries and back again
C10_WentAndCameBack ==
    /\ Loaded /\ pc = "idle" /\ Len(nav) = 2
    /\ Len(Indices) = 3
    /\ nav[2].op = "right" /\ nav[1].op = "left"
    /\ nav[2].from = Indices[1]
    /\ nav[1].from = Indices[2]
    /\ current_spectrum_index = Indices[1]

\* C11: every release of the left button, inside or outside the spectrum
\* plot, leaves the drag-zoom machine idle with no anchor and no endpoint
\* pending; and a press in the spectrum plot while a selection is active
\* leaves no endpoint of the earlier gesture pending.
C11_PointerUpReturnsToIdle ==
    [][/\ \A event \in PointerEvents :
             (OnMouseRelease(event) /\ event.button = 1)
             => (~zoom_active' /\ zoom_start' = None /\ zoom_end' = None)
       /\ \A event \in SpectrumEvents :
             (OnClickSpectrum(event) /\ event.button = 1 /\ zoom_active)
             => zoom_end' = None]_vars

\* the rectangle spanned by the points p and q, as axis limits
Rectangle(p, q) ==
    Limits(Scale * Min(p[1], q[1]), Scale * Max(p[1], q[1]),
           Scale * Min(p[2], q[2]), Scale * Max(p[2], q[2]))

\* C12: a release of the left button inside the spectrum plot while a
\* selection is active sets the limits of the spectrum plot to the rectangle
\* spanned by the anchor and the point of the release, whether or not the
\* pointer moved in between.
C12_ReleaseZoomsToRectangle ==
    [][\A event \in SpectrumEvents :
         (OnMouseRelease(event) /\ event.button = 1 /\ zoom_active)
         => ax2' = Rectangle(<<Val(Val(zoom_start)[1]), Val(Val(zoom_start)[2])>>,
                             <<Val(event.xdata), Val(event.ydata)>>)]_vars

\* the load in progress has committed its index (lines 274-281)
Committed == pc = "done" /\ result \in {"loaded", "redraw_error"}

\* no progress update of the load in progress failed, and Cancel was not
\* pressed
SinkWorked ==
    /\ cancel_at = None
    /\ \A k \in 1..Len(stream) : ~stream[k].sink_raised

\* the store holds record k (1-based position in the stream) of this load
\* under its sequence index
Stored(k) ==
    /\ k - 1 \in DOMAIN spectra_data
    /\ provenance[k - 1].load = "this"
    /\ spectra_data[k - 1].index = k - 1
    /\ Some(spectra_data[k - 1].mz) = stream[k].spectrum.mz
    /\ Some(spectra_data[k - 1].intensities) = stream[k].spectrum.i

HasArrays(s) ==
    /\ s.mz # None /\ s.i # None
    /\ Len(Val(s.mz)) > 0 /\ Len(Val(s.i)) > 0

\* C13: after a successful build every record whose arrays are present and
\* non-empty and none of whose attribute reads failed is in the Spectrum
\* Store under its own sequence index, whatever its ms level and wherever it
\* stands relative to the level-1 records.  Stated for the builds in which no
\* progress update failed.
C13_RecordsWithArraysStored ==
    (Committed /\ SinkWorked)
    => \A k \in 1..Len(stream) :
          (stream[k].spectrum.raises = "none" /\ HasArrays(stream[k].spectrum))
          => Stored(k)

\* the arrays are missing, empty or of different lengths
BadArrays(s) ==
    \/ s.mz = None \/ s.i = None
    \/ Len(Val(s.mz)) = 0 \/ Len(Val(s.i)) = 0
    \/ Len(Val(s.mz)) # Len(Val(s.i))

\* C14: a record whose mz or intensity array is missing, empty or of a length
\* different from the other array is never inserted into the Spectrum Store.
\* Stated for the loads during which Cancel was not pressed.
C14_BadArraysNotStored ==
    (Loading /\ cancel_at = None)
    => \A k \in 1..Len(stream) :
          (stream[k].spectrum.raises = "none" /\ BadArrays(stream[k].spectrum))
          => ~(k - 1 \in DOMAIN spectra_data /\ provenance[k - 1].load = "this")

\* the sequence indices of the level-1 records of the stream none of whose
\* attribute reads failed, in stream order
SoundMS1 ==
    LET pos == Positions([k \in 1..Len(stream) |->
                             /\ stream[k].spectrum.ms_level = 1
                             /\ stream[k].spectrum.raises = "none"])
    IN  [r \in 1..Len(pos) |-> pos[r] - 1]

\* C15: after a successful build the TIC Series has exactly one entry for
\* each level-1 record whose extraction did not fail, in stream order, with
\* or without mz/intensity arrays.  Stated for the builds in which no
\* progress update failed.
C15_TicHasEverySoundMS1 ==
    (Committed /\ SinkWorked)
    => /\ Indices = SoundMS1
       /\ Len(Val(tic_data).times) = Len(SoundMS1)
       /\ Len(Val(tic_data).intensities) = Len(SoundMS1)

\* C18: a successful load whose TIC Series has n >= 1 entries sets the
\* current index to the sequence index of the entry at position n \div 2.
C18_StartsAtMiddle ==
    (Committed /\ Len(tic_series) >= 1)
    => current_spectrum_index =
           tic_series[(Len(tic_series) \div 2) + 1].sequence_index

\* C18 witness: a load of two level-1 records has selected the second
C18_SecondOfTwo ==
    /\ Committed
    /\ Len(tic_series) = 2
    /\ current_spectrum_index = tic_series[2].sequence_index
    /\ current_spectrum_index # tic_series[1].sequence_index

\* the build of the records of the stream with a progress sink that works,
\* from the store as it was when the load started
BuildWithSink ==
    BuildOf([FreshBuild EXCEPT !.spectra_data = Val(snap).spectra_data],
            [k \in 1..Len(stream) |-> stream[k].spectrum])

\* C19: a build whose progress updates fail, or whose sink is gone, reads
\* its stream to the end and commits the TIC Series and the Spectrum Store
\* that a build of the same stream with a working sink commits.  Stated for
\* the streams none of whose records fails in extraction.
C19_SinkDoesNotChangeBuild ==
    (/\ StreamRead
     /\ \A k \in 1..Len(stream) : stream[k].spectrum.raises = "none"
     /\ ~NoMS1(BuildWithSink.spectrum_indices))
    => /\ Committed
       /\ Val(tic_data).times = BuildWithSink.tic_times
       /\ Val(tic_data).intensities = BuildWithSink.tic_intensities
       /\ Val(tic_data).indices = BuildWithSink.spectrum_indices
       /\ spectra_data = BuildWithSink.spectra_data

\* both limits of the plot were set, each with its low end below its high end
NonDegenerate(ax) ==
    /\ ax.xlim # None /\ Val(ax.xlim)[1] < Val(ax.xlim)[2]
    /\ ax.ylim # None /\ Val(ax.ylim)[1] < Val(ax.ylim)[2]

\* the current record is stored and has a pair of intensity > 0, so that a
\* reset sets the limits of the spectrum plot
HasPeaks ==
    /\ CurrentRecord # None
    /\ ~MaskRaises(Val(CurrentRecord))
    /\ Len(Filtered(Val(CurrentRecord)).mz) > 0

\* C16: the limits a reset sets (the spectrum plot by either reset, the TIC
\* plot by the reset of all plots) have their low end strictly below their
\* high end on each axis, also for data of zero range.
C16_ResetLimitsNonDegenerate ==
    [][/\ (ResetMassSpectrumZoom /\ HasPeaks) => NonDegenerate(ax2')
       /\ (ResetAllPlots /\ HasPeaks) => NonDegenerate(ax2')
       /\ (ResetAllPlots /\ Loaded) => NonDegenerate(ax1')]_vars

\* the positions (0-based) of the filtered pairs that were annotated
AnnotatedIdx == {annotations[r].idx : r \in 1..Len(annotations)}

\* C17: the annotated peaks of the current record are pairs of intensity > 0,
\* min(10, number of such pairs) of them, no pair twice, and each has an
\* intensity greater than or equal to that of every such pair left out.
C17_TopTenPeaks ==
    (Loaded /\ CurrentRecord # None)
    => LET f == Filtered(Val(CurrentRecord))
           n == Len(f.intensities)
       IN  /\ Len(annotations) = IF n < 10 THEN n ELSE 10
           /\ Cardinality(AnnotatedIdx) = Len(annotations)
           /\ \A r \in 1..Len(annotations) :
                  /\ annotations[r].idx \in 0..(n - 1)
                  /\ annotations[r].intensity_val > 0
                  /\ annotations[r].intensity_val = f.intensities[annotations[r].idx + 1]
                  /\ annotations[r].mz_val = f.mz[annotations[r].idx + 1]
                  /\ \A j \in (0..(n - 1)) \ AnnotatedIdx :
                         annotations[r].intensity_val >= f.intensities[j + 1]

\* C17 witness: after a move from the second to the first of two records,
\* ten of its more than ten pairs are annotated, and a pair left out has the
\* intensity of an annotated one
C17_TenOfMore ==
    /\ Loaded /\ CurrentRecord # None
    /\ Len(Indices) = 2 /\ current_spectrum_index = Indices[1]
    /\ Len(Filtered(Val(CurrentRecord)).intensities) > 10
    /\ Len(annotations) = 10
    /\ \E r \in 1..Len(annotations) :
          \E j \in (0..(Len(Filtered(Val(CurrentRecord)).intensities) - 1))
                    \ AnnotatedIdx :
              Filtered(Val(CurrentRecord)).intensities[j + 1]
                  = annotations[r].intensity_val

\* a click or step handler of the main window runs
Navigates == (\E t \in ClickTimes : OnClick(t)) \/ OnLeftArrow \/ OnRightArrow

\* C20: a click or step handler that runs while a build is in progress, at
\* one of its progress updates, finds the TIC Series and the Spectrum Store
\* as they were when the build started: the store holds no record of the
\* build in progress.
C20_HandlersSeeEarlierIndex ==
    [][(Navigates /\ Loading) => IndexAsBefore]_vars

\* C21: whenever a TIC Series is loaded, after any loads, clicks and steps,
\* it is non-empty and the current index is one of its sequence indices, so
\* that the position lookup of a step (lines 488, 500) finds it.
C21_CurrentInTicIndices ==
    Loaded
    => /\ Len(Indices) >= 1
       /\ current_spectrum_index \in IndexSet
       /\ ListIndex(Indices, current_spectrum_index) >= 0

\* C21 witness: with a second load in progress, after one that did not
\* start at sequence index 0, the selection has been moved off the middle
\* entry of the loaded series
C21_MovedDuringSecondLoad ==
    /\ Loaded
    /\ Loading
    /\ Len(Indices) >= 2
    /\ Indices[1] # 0
    /\ current_spectrum_index \in IndexSet
    /\ current_spectrum_index # MiddleIndex(Indices)

\* C22: in a committed TIC Series the lists times, intensities and indices
\* have the same length, and position k of each describes the same record of
\* the stream, also when reading the retention time or the total ion current
\* of a level-1 record failed part-way.  Stated for the builds in which no
\* progress update failed.
C22_ParallelListsAligned ==
    (Committed /\ SinkWorked)
    => /\ Len(Val(tic_data).times) = Len(Indices)
       /\ Len(Val(tic_data).intensities) = Len(Indices)
       /\ Len(tic_series) = Len(Indices)
       /\ \A k \in 1..Len(Indices) :
              /\ Indices[k] = tic_series[k].sequence_index
              /\ Val(tic_data).times[k] = tic_series[k].retention_time
              /\ Val(tic_data).intensities[k] = tic_series[k].total_intensity

\* the release commits limits: lines 413-414 are reached
Commits(event) ==
    /\ OnMouseRelease(event)
    /\ zoom_active /\ event.inaxes = "ax2" /\ event.button = 1
    /\ ZoomLimits(zoom_start, zoom_end, None) # None

\* C23: the limits a release commits are computed from an anchor and an
\* endpoint recorded after the same press; an endpoint tracked in an earlier
\* gesture is never used for a later commit.
C23_CommitUsesOwnEndpoint ==
    [][\A event \in PointerEvents : Commits(event) => end_gesture = "this"]_vars

====
